---- MODULE Spec2Model ----
(***************************************************************************)
(* Model of src/src/main.rs: the ledger State with its transfer rule, and  *)
(* the L1Verifier that stores rollup blocks, queues fraud challenges and   *)
(* adjudicates matured challenges by replay.                               *)
(*                                                                         *)
(* Address, Balance, BlockNumber and the clock are u64 in the source.      *)
(* The model keeps the width as the range 0..U64Max and keeps what the     *)
(* build does on overflow: a build with overflow checks (cargo's dev and   *)
(* test profiles) panics, a build without them (the release profile)       *)
(* wraps modulo U64Max + 1.  A panic ends the process: panicked becomes    *)
(* TRUE and no operation is accepted afterwards.                           *)
(*                                                                         *)
(* A HashMap<Address, Balance> is a function whose DOMAIN is the set of    *)
(* keys present, so that a key present with balance 0 differs from an      *)
(* absent key, as it does for HashMap's ==.                                *)
(***************************************************************************)
EXTENDS Integers, Sequences, FiniteSets

VARIABLES
    time,                \* L1Verifier.time
    blocks,              \* L1Verifier.blocks
    challenges,          \* L1Verifier.challenges (front = Head)
    resolved_challenges, \* L1Verifier.resolved_challenges
    challenge_timeout,   \* L1Verifier.challenge_timeout
    initial_state,       \* L1Verifier.initial_state: <<>> is None, <<b>> is Some(b)
    overflow_checks,     \* whether the build panics on integer overflow
    panicked,            \* the process has panicked
    last_op,             \* the entry point that ran last
    ledger,              \* a State on which apply_tx is called directly
    ledger_tx,           \* the argument of the last direct apply_tx call
    ledger_ret           \* its outcome: "none", "true", "false" or "panic"

vars == <<time, blocks, challenges, resolved_challenges, challenge_timeout,
          initial_state, overflow_checks, panicked, last_op,
          ledger, ledger_tx, ledger_ret>>

verifier_vars == <<time, blocks, challenges, resolved_challenges,
                   challenge_timeout, initial_state>>

ledger_vars == <<ledger, ledger_tx, ledger_ret>>

(***************************************************************************)
(* Bounds                                                                  *)
(***************************************************************************)
\* largest value of the scaled-down u64
U64Max == 2

\* most blocks submitted
MaxBlocks == 2

\* most transactions in a block
MaxTxs == 2

\* most challenges submitted under Spec
MaxDisputes == 1

\* most challenges submitted under SpecTiming
MaxChallenges == 2

\* largest challenge timeout the verifier is constructed with
MaxTimeout == 2

Modulus == U64Max + 1

U64 == 0..U64Max

Address == {1, 2}

(***************************************************************************)
(* Ledger State                                                            *)
(***************************************************************************)
\* State::new(): the empty balance map
new_balances == [a \in {} |-> 0]

\* every balance map over Address
BalanceMaps == UNION {[D -> U64] : D \in SUBSET Address}

\* balances.get(&a).copied().unwrap_or(0)
get_or_zero(balances, a) == IF a \in DOMAIN balances THEN balances[a] ELSE 0

\* *balances.entry(a).or_default() = v
set_entry(balances, a, v) ==
    [x \in DOMAIN balances \cup {a} |-> IF x = a THEN v ELSE balances[x]]

Transaction(from, to, amount) == [from |-> from, to |-> to, amount |-> amount]

Transactions == [from : Address, to : Address, amount : U64]

\* State::apply_tx under the given build; ret is "true", "false" or "panic".
\* On a panic the map holds the debit already made.
apply_tx_build(balances, tx, checks) ==
    LET sender_balance == get_or_zero(balances, tx.from) IN
    IF sender_balance >= tx.amount
    THEN LET debited == set_entry(balances, tx.from,
                                  get_or_zero(balances, tx.from) - tx.amount)
             credit == get_or_zero(debited, tx.to) + tx.amount
         IN  IF credit > U64Max /\ checks
             THEN [ret |-> "panic", balances |-> debited]
             ELSE [ret |-> "true",
                   balances |-> set_entry(debited, tx.to, credit % Modulus)]
    ELSE [ret |-> "false", balances |-> balances]

\* State::apply_tx as the running build executes it
apply_tx(balances, tx) == apply_tx_build(balances, tx, overflow_checks)

(***************************************************************************)
(* Records                                                                 *)
(***************************************************************************)
RollupBlock(block_number, transactions, post_state, committed) ==
    [block_number |-> block_number, transactions |-> transactions,
     post_state |-> post_state, committed |-> committed]

\* valid is "None", "Some(true)" or "Some(false)"
FraudChallenge(block_number, tx_index, challenger, t, valid) ==
    [block_number |-> block_number, tx_index |-> tx_index,
     challenger |-> challenger, time |-> t, valid |-> valid]

(***************************************************************************)
(* Replay Engine and baseline derivation.  Each returns                     *)
(* [panic |-> BOOLEAN, balances |-> map].                                   *)
(***************************************************************************)
\* one iteration of the loop of submit_block: undo tx on the snapshot
undo_tx(balances, tx) ==
    LET debited == IF tx.to \in DOMAIN balances
                   THEN [balances EXCEPT ![tx.to] =
                            IF @ >= tx.amount THEN @ - tx.amount ELSE 0]
                   ELSE balances
        credit == get_or_zero(debited, tx.from) + tx.amount
    IN  IF credit > U64Max /\ overflow_checks
        THEN [panic |-> TRUE, balances |-> debited]
        ELSE [panic |-> FALSE,
              balances |-> set_entry(debited, tx.from, credit % Modulus)]

RECURSIVE undo_txs(_, _, _)
\* the loop of submit_block over transactions[1..n] in reverse order
undo_txs(balances, transactions, n) ==
    IF n = 0 THEN [panic |-> FALSE, balances |-> balances]
    ELSE LET r == undo_tx(balances, transactions[n]) IN
         IF r.panic THEN r ELSE undo_txs(r.balances, transactions, n - 1)

\* the snapshot submit_block derives from the first block
derive_initial_state(block) ==
    undo_txs(block.post_state, block.transactions, Len(block.transactions))

RECURSIVE replay_txs(_, _, _)
\* the inner loop of reconstruct_state over transactions[i..]: the result of
\* apply_tx is discarded
replay_txs(balances, transactions, i) ==
    IF i > Len(transactions) THEN [panic |-> FALSE, balances |-> balances]
    ELSE LET r == apply_tx(balances, transactions[i]) IN
         IF r.ret = "panic" THEN [panic |-> TRUE, balances |-> r.balances]
         ELSE replay_txs(r.balances, transactions, i + 1)

RECURSIVE replay_blocks_committed_only(_, _, _, _)
\* replay_blocks, except that a block whose committed flag is FALSE is skipped
replay_blocks_committed_only(balances, blks, b, upto_block) ==
    IF b >= upto_block THEN [panic |-> FALSE, balances |-> balances]
    ELSE IF b >= Len(blks) THEN [panic |-> TRUE, balances |-> balances]
    ELSE IF ~blks[b + 1].committed
         THEN replay_blocks_committed_only(balances, blks, b + 1, upto_block)
    ELSE LET r == replay_txs(balances, blks[b + 1].transactions, 1) IN
         IF r.panic THEN r
         ELSE replay_blocks_committed_only(r.balances, blks, b + 1, upto_block)

RECURSIVE replay_blocks(_, _, _, _)
\* the outer loop of reconstruct_state: blocks b..upto_block-1 (0-based);
\* indexing past the end of the log panics
replay_blocks(balances, blks, b, upto_block) ==
    IF b >= upto_block THEN [panic |-> FALSE, balances |-> balances]
    ELSE IF b >= Len(blks) THEN [panic |-> TRUE, balances |-> balances]
    ELSE LET r == replay_txs(balances, blks[b + 1].transactions, 1) IN
         IF r.panic THEN r ELSE replay_blocks(r.balances, blks, b + 1, upto_block)

\* reconstruct_state on a verifier with the given baseline and block log
reconstruct_from(init, blks, upto_block) ==
    replay_blocks(IF init = <<>> THEN new_balances ELSE init[1], blks, 0, upto_block)

\* L1Verifier::reconstruct_state
reconstruct_state(upto_block) == reconstruct_from(initial_state, blocks, upto_block)

(***************************************************************************)
(* Challenge resolution.  A pass works on the record                        *)
(* [time, blocks, challenges, resolved_challenges, panicked].               *)
(***************************************************************************)
\* the maturity test of process_challenges: "panic", "mature" or "immature"
maturity(now, challenge) ==
    IF challenge.time > now /\ overflow_checks THEN "panic"
    ELSE IF (now - challenge.time + Modulus) % Modulus >= challenge_timeout
         THEN "mature" ELSE "immature"

\* adjudicate, except that the result of apply_tx alone decides the verdict
adjudicate_without_comparison(blks, challenge) ==
    IF challenge.block_number >= Len(blks) THEN "panic"
    ELSE LET block == blks[challenge.block_number + 1]
             pre_state == reconstruct_from(initial_state, blks, challenge.block_number)
         IN  IF pre_state.panic THEN "panic"
             ELSE IF challenge.tx_index >= Len(block.transactions) THEN "panic"
             ELSE LET test_state == apply_tx(pre_state.balances,
                                             block.transactions[challenge.tx_index + 1])
                  IN  IF test_state.ret = "panic" THEN "panic"
                      ELSE IF test_state.ret = "true" THEN "true" ELSE "false"

\* adjudicate, except that a transaction index outside the block is answered
\* with the verdict false instead of a panic
adjudicate_out_of_range_is_fraud(blks, challenge) ==
    IF challenge.block_number >= Len(blks) THEN "panic"
    ELSE LET block == blks[challenge.block_number + 1]
             pre_state == reconstruct_from(initial_state, blks, challenge.block_number)
         IN  IF pre_state.panic THEN "panic"
             ELSE IF challenge.tx_index >= Len(block.transactions) THEN "false"
             ELSE LET test_state == apply_tx(pre_state.balances,
                                             block.transactions[challenge.tx_index + 1])
                  IN  IF test_state.ret = "panic" THEN "panic"
                      ELSE IF test_state.ret = "true"
                              /\ test_state.balances = block.post_state
                           THEN "true" ELSE "false"

\* the body of the loop of process_challenges for a matured front challenge:
\* "panic", "true" or "false"
adjudicate(blks, challenge) ==
    IF challenge.block_number >= Len(blks) THEN "panic"
    ELSE LET block == blks[challenge.block_number + 1]
             pre_state == reconstruct_from(initial_state, blks, challenge.block_number)
         IN  IF pre_state.panic THEN "panic"
             ELSE IF challenge.tx_index >= Len(block.transactions) THEN "panic"
             ELSE LET test_state == apply_tx(pre_state.balances,
                                             block.transactions[challenge.tx_index + 1])
                  IN  IF test_state.ret = "panic" THEN "panic"
                      ELSE IF test_state.ret = "true"
                              /\ test_state.balances = block.post_state
                           THEN "true" ELSE "false"

\* resolve, except that the resolved challenge is put at the front of the log
resolve_at_front(popped, challenge, valid, committed) ==
    [popped EXCEPT
       !.resolved_challenges =
           <<[challenge EXCEPT !.valid =
               IF valid = "true" THEN "Some(true)" ELSE "Some(false)"]>> \o @,
       !.blocks = [@ EXCEPT ![challenge.block_number + 1].committed = committed]]

\* resolve, except that the committed flag of the block is left as it is
resolve_keeps_flag(popped, challenge, valid, committed) ==
    [popped EXCEPT
       !.resolved_challenges =
           Append(@, [challenge EXCEPT !.valid =
               IF valid = "true" THEN "Some(true)" ELSE "Some(false)"])]

\* the record of a pass after the verdict on the challenge just popped
resolve(popped, challenge, valid, committed) ==
    [popped EXCEPT
       !.resolved_challenges =
           Append(@, [challenge EXCEPT !.valid =
               IF valid = "true" THEN "Some(true)" ELSE "Some(false)"]),
       !.blocks = [@ EXCEPT ![challenge.block_number + 1].committed = committed]]

RECURSIVE process_challenges_scan_all(_)
\* process_challenges, except that an immature challenge is left in place and
\* the scan goes on behind it
process_challenges_scan_all(v) ==
    IF v.challenges = <<>> THEN v
    ELSE LET challenge == Head(v.challenges)
             m == maturity(v.time, challenge)
         IN  IF m = "panic" THEN [v EXCEPT !.panicked = TRUE]
             ELSE IF m = "immature"
             THEN LET rest == process_challenges_scan_all(
                                [v EXCEPT !.challenges = Tail(v.challenges)])
                  IN  [rest EXCEPT !.challenges = <<challenge>> \o @]
             ELSE LET popped == [v EXCEPT !.challenges = Tail(v.challenges)]
                      valid == adjudicate(v.blocks, challenge)
                  IN  IF valid = "panic" THEN [popped EXCEPT !.panicked = TRUE]
                      ELSE process_challenges_scan_all(
                             resolve(popped, challenge, valid,
                                     IF valid = "true"
                                     THEN v.blocks[challenge.block_number + 1].committed
                                     ELSE FALSE))

RECURSIVE process_challenges_flag_follows(_)
\* process_challenges, except that the committed flag is set to the verdict
process_challenges_flag_follows(v) ==
    IF v.challenges = <<>> THEN v
    ELSE LET challenge == Head(v.challenges)
             m == maturity(v.time, challenge)
         IN  IF m = "panic" THEN [v EXCEPT !.panicked = TRUE]
             ELSE IF m = "immature" THEN v
             ELSE LET popped == [v EXCEPT !.challenges = Tail(v.challenges)]
                      valid == adjudicate(v.blocks, challenge)
                  IN  IF valid = "panic" THEN [popped EXCEPT !.panicked = TRUE]
                      ELSE process_challenges_flag_follows(
                             resolve(popped, challenge, valid, valid = "true"))

RECURSIVE process_challenges(_)
\* L1Verifier::process_challenges
process_challenges(v) ==
    IF v.challenges = <<>> THEN v
    ELSE LET challenge == Head(v.challenges)
             m == maturity(v.time, challenge)
         IN  IF m = "panic" THEN [v EXCEPT !.panicked = TRUE]
             ELSE IF m = "immature" THEN v
             ELSE LET popped == [v EXCEPT !.challenges = Tail(v.challenges)]
                      valid == adjudicate(v.blocks, challenge)
                  IN  IF valid = "panic" THEN [popped EXCEPT !.panicked = TRUE]
                      ELSE process_challenges(
                             resolve(popped, challenge, valid,
                                     IF valid = "true"
                                     THEN v.blocks[challenge.block_number + 1].committed
                                     ELSE FALSE))

(***************************************************************************)
(* Operations of the verifier                                               *)
(***************************************************************************)
\* L1Verifier::new(timeout) on a build with or without overflow checks
new(timeout, checks) ==
    /\ time = 0
    /\ blocks = <<>>
    /\ challenges = <<>>
    /\ resolved_challenges = <<>>
    /\ challenge_timeout = timeout
    /\ initial_state = <<>>
    /\ overflow_checks = checks
    /\ panicked = FALSE
    /\ last_op = "new"

\* submit_block, except that the baseline is derived again from every block
submit_block_rederives(block) ==
    /\ ~panicked
    /\ last_op' = "submit_block"
    /\ LET r == derive_initial_state(block) IN
       IF r.panic
       THEN /\ panicked' = TRUE
            /\ UNCHANGED <<blocks, initial_state>>
       ELSE /\ initial_state' = <<r.balances>>
            /\ blocks' = Append(blocks, block)
            /\ UNCHANGED panicked
    /\ UNCHANGED <<time, challenges, resolved_challenges, challenge_timeout,
                   overflow_checks, ledger_vars>>

\* L1Verifier::submit_block
submit_block(block) ==
    /\ ~panicked
    /\ last_op' = "submit_block"
    /\ IF blocks = <<>>
       THEN LET r == derive_initial_state(block) IN
            IF r.panic
            THEN /\ panicked' = TRUE
                 /\ UNCHANGED <<blocks, initial_state>>
            ELSE /\ initial_state' = <<r.balances>>
                 /\ blocks' = Append(blocks, block)
                 /\ UNCHANGED panicked
       ELSE /\ blocks' = Append(blocks, block)
            /\ UNCHANGED <<initial_state, panicked>>
    /\ UNCHANGED <<time, challenges, resolved_challenges, challenge_timeout,
                   overflow_checks, ledger_vars>>

\* submit_challenge, except that a challenge naming a block that is not in
\* the log, or a transaction index outside the block, is dropped
submit_challenge_validated(challenge) ==
    /\ ~panicked
    /\ last_op' = "submit_challenge"
    /\ challenges' =
         IF /\ challenge.block_number < Len(blocks)
            /\ challenge.tx_index < Len(blocks[challenge.block_number + 1].transactions)
         THEN Append(challenges, challenge)
         ELSE challenges
    /\ UNCHANGED <<time, blocks, resolved_challenges, challenge_timeout,
                   initial_state, overflow_checks, panicked, ledger_vars>>

\* L1Verifier::submit_challenge
submit_challenge(challenge) ==
    /\ ~panicked
    /\ last_op' = "submit_challenge"
    /\ challenges' = Append(challenges, challenge)
    /\ UNCHANGED <<time, blocks, resolved_challenges, challenge_timeout,
                   initial_state, overflow_checks, panicked, ledger_vars>>

\* L1Verifier::advance_time
advance_time(ticks) ==
    /\ ~panicked
    /\ last_op' = "advance_time"
    /\ IF time + ticks > U64Max /\ overflow_checks
       THEN /\ panicked' = TRUE
            /\ UNCHANGED <<time, blocks, challenges, resolved_challenges>>
       ELSE LET v == process_challenges(
                        [time |-> (time + ticks) % Modulus,
                         blocks |-> blocks,
                         challenges |-> challenges,
                         resolved_challenges |-> resolved_challenges,
                         panicked |-> FALSE])
            IN  /\ time' = v.time
                /\ blocks' = v.blocks
                /\ challenges' = v.challenges
                /\ resolved_challenges' = v.resolved_challenges
                /\ panicked' = v.panicked
    /\ UNCHANGED <<challenge_timeout, initial_state, overflow_checks, ledger_vars>>

(***************************************************************************)
(* Specification Spec: blocks with any transaction list and any claimed    *)
(* post-state, challenges stamped with the clock and aimed at a stored     *)
(* transaction.                                                            *)
(***************************************************************************)
\* a small transfer each way and the largest transfer
TxInputs == {Transaction(1, 2, 1), Transaction(1, 2, U64Max), Transaction(2, 1, 1)}

\* transaction lists of at most MaxTxs transactions
TxLists == UNION {[1..n -> TxInputs] : n \in 0..MaxTxs}

\* blocks numbered in submission order and submitted as committed
BlockInputs ==
    {RollupBlock(Len(blocks), txs, post, TRUE) :
        txs \in TxLists, post \in BalanceMaps}

\* challenges as main() and the tests build them: time is the clock, valid is
\* None, the target is a stored transaction
ChallengeInputs ==
    {FraudChallenge(n, i, 42, time, "None") :
        n \in 0..(Len(blocks) - 1), i \in 0..(MaxTxs - 1)}

WellAimed(challenge) ==
    /\ challenge.block_number < Len(blocks)
    /\ challenge.tx_index < Len(blocks[challenge.block_number + 1].transactions)

LedgerIdle ==
    /\ ledger = new_balances
    /\ ledger_tx = Transaction(1, 1, 0)
    /\ ledger_ret = "none"

Init ==
    /\ \E checks \in BOOLEAN : new(0, checks)
    /\ LedgerIdle

Submitted == Len(challenges) + Len(resolved_challenges)

SubmitBlock ==
    /\ Len(blocks) < MaxBlocks
    /\ \E block \in BlockInputs : submit_block(block)

SubmitChallenge ==
    /\ Submitted < MaxDisputes
    /\ \E challenge \in ChallengeInputs :
          WellAimed(challenge) /\ submit_challenge(challenge)

AdvanceTime == \E ticks \in {0} : advance_time(ticks)

Next == SubmitBlock \/ SubmitChallenge \/ AdvanceTime

Spec == Init /\ [][Next]_vars

(***************************************************************************)
(* Specification SpecTiming: two fixed blocks, challenges with any          *)
(* recorded time and any target (stored or not), every timeout up to        *)
(* MaxTimeout, clock advances of any size.                                  *)
(***************************************************************************)
\* a block without transactions, submitted committed or not, and a block
\* submitted committed whose first transfer is the only one that succeeds
\* after the first block
TimingBlocks ==
    {RollupBlock(Len(blocks), <<>>, [a \in Address |-> IF a = 1 THEN 1 ELSE 0],
                 committed) : committed \in BOOLEAN}
    \cup {RollupBlock(Len(blocks), <<Transaction(1, 2, 1), Transaction(2, 1, 1)>>,
                      [a \in Address |-> IF a = 1 THEN 0 ELSE 1], TRUE)}

\* challenges on any block number and transaction index, with any time
TimingChallenges ==
    {FraudChallenge(n, i, 42, t, "None") :
        n \in 0..MaxBlocks, i \in 0..MaxTxs, t \in U64}

InitTiming ==
    /\ \E timeout \in 0..MaxTimeout, checks \in BOOLEAN : new(timeout, checks)
    /\ LedgerIdle

SubmitBlockT ==
    /\ Len(blocks) < MaxBlocks
    /\ \E block \in TimingBlocks : submit_block(block)

SubmitChallengeT ==
    /\ Submitted < MaxChallenges
    /\ \E challenge \in TimingChallenges : submit_challenge(challenge)

AdvanceTimeT == \E ticks \in U64 : advance_time(ticks)

NextTiming == SubmitBlockT \/ SubmitChallengeT \/ AdvanceTimeT

SpecTiming == InitTiming /\ [][NextTiming]_vars

(***************************************************************************)
(* Specification SpecLedger: apply_tx called directly on any balance map    *)
(* with any transaction.                                                    *)
(***************************************************************************)
InitLedger ==
    /\ \E checks \in BOOLEAN : new(0, checks)
    /\ ledger \in BalanceMaps
    /\ ledger_tx = Transaction(1, 1, 0)
    /\ ledger_ret = "none"

\* one call ledger.apply_tx(&tx); nothing runs after a panic
ApplyTx ==
    /\ ledger_ret # "panic"
    /\ \E tx \in Transactions :
         LET r == apply_tx(ledger, tx) IN
         /\ ledger' = r.balances
         /\ ledger_tx' = tx
         /\ ledger_ret' = r.ret
    /\ UNCHANGED <<verifier_vars, overflow_checks, panicked, last_op>>

NextLedger == ApplyTx

SpecLedger == InitLedger /\ [][NextLedger]_vars

(***************************************************************************)
(* Properties                                                               *)
(***************************************************************************)
RECURSIVE SumOver(_, _)
SumOver(balances, accounts) ==
    IF accounts = {} THEN 0
    ELSE LET a == CHOOSE x \in accounts : TRUE
         IN  balances[a] + SumOver(balances, accounts \ {a})

\* the sum of all balances of a map
Total(balances) == SumOver(balances, DOMAIN balances)

\* C7: every direct apply_tx call that returns true had a sender balance of
\* at least the amount, debits the sender and credits the receiver by exactly
\* the amount (so no balance wraps) and keeps the sum of all balances; every
\* call that returns false leaves the map unchanged, with no entry created.
C7_Conservation ==
    [][LET tx == ledger_tx' IN
       /\ ledger_ret' = "true" =>
            /\ get_or_zero(ledger, tx.from) >= tx.amount
            /\ DOMAIN ledger' = DOMAIN ledger \cup {tx.from, tx.to}
            /\ \A a \in DOMAIN ledger' :
                 ledger'[a] = get_or_zero(ledger, a)
                              - (IF a = tx.from THEN tx.amount ELSE 0)
                              + (IF a = tx.to THEN tx.amount ELSE 0)
            /\ Total(ledger') = Total(ledger)
       /\ ledger_ret' = "false" =>
            /\ get_or_zero(ledger, tx.from) < tx.amount
            /\ ledger' = ledger]_vars

RECURSIVE apply_all(_, _, _)
\* transactions[i..] applied in order with apply_tx, as the tests and main()
\* compute a post-state; ok is FALSE once a call does not return true
apply_all(balances, transactions, i) ==
    IF i > Len(transactions) THEN [ok |-> TRUE, balances |-> balances]
    ELSE LET r == apply_tx(balances, transactions[i]) IN
         IF r.ret = "true" THEN apply_all(r.balances, transactions, i + 1)
         ELSE [ok |-> FALSE, balances |-> r.balances]

\* the ledger the rollup really has before block n (0-based) when it started
\* from the balances g: every stored transaction applied by the transfer rule
\* in exact arithmetic (panic is TRUE when a credit would not fit)
ActualState(g, n) ==
    LET RECURSIVE run(_, _, _)
        run(balances, b, i) ==
            IF b >= n THEN [panic |-> FALSE, balances |-> balances]
            ELSE IF i > Len(blocks[b + 1].transactions) THEN run(balances, b + 1, 1)
            ELSE LET r == apply_tx_build(balances, blocks[b + 1].transactions[i], TRUE)
                 IN  IF r.ret = "panic" THEN [panic |-> TRUE, balances |-> balances]
                     ELSE run(r.balances, b, i + 1)
    IN  run(g, 0, 1)

\* the block and the transaction a resolved challenge names
TargetBlock(c) == blocks[c.block_number + 1]

TargetTx(c) == TargetBlock(c).transactions[c.tx_index + 1]

\* post shows tx as carried out on pre although the sender holds too little:
\* the receiver is credited with the whole amount, the sender is left with
\* nothing, every other account is as in pre
ShowsApplied(pre, tx, post) ==
    /\ tx.from # tx.to
    /\ get_or_zero(pre, tx.to) + tx.amount <= U64Max
    /\ post = set_entry(set_entry(pre, tx.from, 0), tx.to,
                        get_or_zero(pre, tx.to) + tx.amount)

\* C1: whatever balances g the rollup started from, a resolved challenge on a
\* transfer of more than its sender really holds before the block, in a block
\* whose claimed post-state shows the transfer as applied, has the verdict
\* Some(false) and its block is no longer committed.  Stated for the builds
\* with overflow checks, where no arithmetic wraps.
C1_FraudDetected ==
    \A k \in 1..Len(resolved_challenges), g \in BalanceMaps :
        LET c == resolved_challenges[k]
            pre == ActualState(g, c.block_number)
        IN  (/\ overflow_checks
             /\ ~pre.panic
             /\ TargetTx(c).amount > get_or_zero(pre.balances, TargetTx(c).from)
             /\ ShowsApplied(pre.balances, TargetTx(c), TargetBlock(c).post_state))
            => (c.valid = "Some(false)" /\ ~TargetBlock(c).committed)

\* every block before block n (0-based) claims as post-state exactly the
\* ledger the rollup really has after it, starting from g
TruthfulBefore(g, n) ==
    \A m \in 1..n :
        ActualState(g, m) = [panic |-> FALSE, balances |-> blocks[m].post_state]

\* C2: whatever balances g the rollup started from, a resolved challenge on
\* the only transaction of a block, where that transaction succeeds on the
\* state preceding the block and the claimed post-state is exactly the
\* result, has the verdict Some(true) and its block is still committed.  The
\* state preceding the block is taken where it is beyond dispute: it is the
\* ledger the rollup really has (in exact arithmetic) and, for a later block,
\* also the post-state the previous block claims.  Stated for the builds
\* with overflow checks, where no arithmetic wraps.
C2_ValidExonerated ==
    \A k \in 1..Len(resolved_challenges), g \in BalanceMaps :
        LET c == resolved_challenges[k]
            pre == ActualState(g, c.block_number)
            r == apply_tx_build(pre.balances, TargetTx(c), TRUE)
        IN  (/\ overflow_checks
             /\ Len(TargetBlock(c).transactions) = 1
             /\ TruthfulBefore(g, c.block_number)
             /\ ~pre.panic
             /\ r.ret = "true"
             /\ TargetBlock(c).post_state = r.balances)
            => (c.valid = "Some(true)" /\ TargetBlock(c).committed)

\* C5: every resolved challenge on (block N, index i) carries Some(true) if
\* apply_tx of transaction i alone on reconstruct_state(N) returns true and
\* the resulting map equals block N's claimed post-state, and Some(false)
\* otherwise.
C5_AdjudicationRule ==
    \A k \in 1..Len(resolved_challenges) :
        LET c == resolved_challenges[k]
            pre == reconstruct_state(c.block_number)
            test == apply_tx(pre.balances, TargetTx(c))
        IN  c.valid = IF test.ret = "true" /\ test.balances = TargetBlock(c).post_state
                      THEN "Some(true)" ELSE "Some(false)"

\* a challenge on the second block, whose pre-state is a replay of the
\* first block, was adjudicated and resolved Some(true)
C5_Witness ==
    /\ \E k \in 1..Len(resolved_challenges) :
         LET c == resolved_challenges[k] IN
         c.block_number = 1 /\ c.valid = "Some(true)"

\* C8: when the transactions of the first block all return true applied in
\* order from some balances g and its claimed post-state is exactly the
\* result, replaying them from the derived baseline gives the claimed
\* post-state.
C8_BaselineRoundTrip ==
    \A g \in BalanceMaps :
        (/\ blocks # <<>>
         /\ apply_all(g, blocks[1].transactions, 1) =
                [ok |-> TRUE, balances |-> blocks[1].post_state])
        => /\ initial_state # <<>>
           /\ replay_txs(initial_state[1], blocks[1].transactions, 1) =
                [panic |-> FALSE, balances |-> blocks[1].post_state]

\* the verdicts of the challenges resolved by the step, and those challenges
\* as they were queued
NewlyResolved(before, after) ==
    [j \in 1..(Len(after) - Len(before)) |-> after[Len(before) + j]]

Requeued(resolved) == [j \in 1..Len(resolved) |-> [resolved[j] EXCEPT !.valid = "None"]]

\* C3: a pass of advance_time that returns resolves the challenge at the
\* head of the queue if and only if the clock after the advance minus the
\* challenge's time is at least the timeout; otherwise the queue and the
\* resolved log are as before.  Stated for timeouts of at least 1.
C3_TimeoutBoundary ==
    [][(/\ last_op' = "advance_time" /\ ~panicked' /\ challenges # <<>>
        /\ challenge_timeout >= 1) =>
        LET c == Head(challenges)
            resolved == /\ Len(resolved_challenges') > Len(resolved_challenges)
                        /\ Requeued(NewlyResolved(resolved_challenges,
                                                  resolved_challenges'))[1] = c
        IN  IF time' - c.time >= challenge_timeout
            THEN resolved
            ELSE /\ challenges' = challenges
                 /\ resolved_challenges' = resolved_challenges]_vars

\* the head of the queue is immature at the clock value now
Immature(c, now) == c.time <= now /\ now - c.time < challenge_timeout

\* C4: every step resolves a prefix of the pending queue in queue order and
\* nothing else, so no challenge is resolved before one queued ahead of it;
\* and a pass that finds the head immature resolves nothing, whatever the
\* times of the challenges behind it.
C4_FifoBlocking ==
    [][LET k == Len(resolved_challenges') - Len(resolved_challenges) IN
       /\ k >= 0
       /\ k <= Len(challenges)
       /\ SubSeq(resolved_challenges', 1, Len(resolved_challenges)) = resolved_challenges
       /\ Requeued(NewlyResolved(resolved_challenges, resolved_challenges'))
            = SubSeq(challenges, 1, k)
       /\ (last_op' = "advance_time" /\ challenges # <<>>
           /\ Immature(Head(challenges), time'))
          => (k = 0 /\ challenges' = challenges)]_vars

\* a pass has just returned leaving an immature challenge at the head and,
\* behind it, a challenge whose own time satisfies the timeout
C4_Witness ==
    /\ last_op = "advance_time"
    /\ ~panicked
    /\ Len(challenges) >= 2
    /\ Immature(challenges[1], time)
    /\ challenges[2].time <= time
    /\ time - challenges[2].time >= challenge_timeout

\* C6: in every step the block log keeps its entries and at most gains one
\* at the end; a stored block keeps its number, transactions and claimed
\* post-state; its committed flag changes only from TRUE to FALSE and only in
\* advance_time.
C6_StoredBlocks ==
    [][/\ Len(blocks') \in {Len(blocks), Len(blocks) + 1}
       /\ \A i \in 1..Len(blocks) :
            /\ blocks'[i].block_number = blocks[i].block_number
            /\ blocks'[i].transactions = blocks[i].transactions
            /\ blocks'[i].post_state = blocks[i].post_state
            /\ blocks'[i].committed # blocks[i].committed =>
                 /\ blocks[i].committed
                 /\ ~blocks'[i].committed
                 /\ last_op' = "advance_time"]_vars

\* the second block, submitted committed, has lost its flag and a later
\* challenge against it was resolved Some(true)
C6_Witness ==
    /\ Len(blocks) = 2
    /\ ~blocks[2].committed
    /\ Len(resolved_challenges) = 2
    /\ resolved_challenges[1].block_number = 1
    /\ resolved_challenges[1].valid = "Some(false)"
    /\ resolved_challenges[2].block_number = 1
    /\ resolved_challenges[2].valid = "Some(true)"

\* C9 as stated: for every n up to the length of the log, every step leaves
\* reconstruct_state(n) as it was.
C9_ReplayStable_AsStated ==
    [][\A n \in 0..Len(blocks) :
         reconstruct_from(initial_state', blocks', n)
           = reconstruct_from(initial_state, blocks, n)]_vars

\* C9 as amended: once the first block is in the log, for every n up to the
\* length of the log, every step leaves reconstruct_state(n) as it was.
C9_ReplayStable ==
    [][blocks # <<>> =>
         \A n \in 0..Len(blocks) :
            reconstruct_from(initial_state', blocks', n)
              = reconstruct_from(initial_state, blocks, n)]_vars

\* two blocks are stored, the first has transactions and has been found
\* fraudulent
C9_Witness ==
    /\ Len(blocks) = 2
    /\ blocks[1].transactions # <<>>
    /\ ~blocks[1].committed
    /\ \E k \in 1..Len(resolved_challenges) :
         /\ resolved_challenges[k].block_number = 0
         /\ resolved_challenges[k].valid = "Some(false)"

\* C10: with challenges stamped with the clock and aimed at stored
\* transactions, an advance_time that brings the clock to at least the time
\* of every pending challenge plus the timeout leaves the pending queue empty
\* and every challenge that was pending in the resolved log.
C10_EventualAdjudication ==
    [][(/\ last_op' = "advance_time"
        /\ \A i \in 1..Len(challenges) :
             time' >= challenges[i].time + challenge_timeout)
       => /\ challenges' = <<>>
          /\ Len(resolved_challenges') = Len(resolved_challenges) + Len(challenges)]_vars

\* C11: an advance_time that returns sets the clock to the old clock plus
\* some ticks of the u64 range, so the clock does not decrease, and has run a
\* resolution pass: no matured challenge is left at the head of the queue;
\* submit_block and submit_challenge leave the clock and the resolved log as
\* they are and take nothing from the queue.
C11_ClockAdvance ==
    [][/\ (last_op' = "advance_time" /\ ~panicked') =>
            /\ \E ticks \in U64 : time' = time + ticks
            /\ challenges' # <<>> => maturity(time', Head(challenges')) # "mature"
       /\ last_op' \in {"submit_block", "submit_challenge"} =>
            /\ time' = time
            /\ resolved_challenges' = resolved_challenges
            /\ SubSeq(challenges', 1, Len(challenges)) = challenges]_vars

\* C12: submit_challenge appends one challenge of the input set, whatever
\* block number and transaction index it names, to the back of the pending
\* queue, and leaves the clock, the block log with its flags, the resolved log,
\* the timeout and the baseline as they are.
C12_SubmitChallengeFrame ==
    [][last_op' = "submit_challenge" =>
         /\ \E challenge \in TimingChallenges :
              challenges' = Append(challenges, challenge)
         /\ UNCHANGED <<time, blocks, resolved_challenges, challenge_timeout,
                        initial_state, panicked>>]_vars

\* the operation that ran last queued a challenge on a block number that is
\* not in the log, behind a challenge whose transaction index is outside its
\* block
C12_Witness ==
    /\ last_op = "submit_challenge"
    /\ Len(challenges) = 2
    /\ challenges[2].block_number >= Len(blocks)
    /\ challenges[1].block_number < Len(blocks)
    /\ challenges[1].tx_index >= Len(blocks[challenges[1].block_number + 1].transactions)

\* the challenge names a block that is not in the log or a transaction index
\* outside its block
Malformed(c) ==
    \/ c.block_number >= Len(blocks)
    \/ c.tx_index >= Len(blocks[c.block_number + 1].transactions)

\* C13: an advance_time that finds at the head of the queue a challenge that
\* is matured at the new clock and malformed ends in a panic; the resolved log
\* and the block log with its committed flags are as before.
C13_MalformedIsFatal ==
    [][(/\ last_op' = "advance_time"
        /\ challenges # <<>>
        /\ Malformed(Head(challenges))
        /\ maturity(time', Head(challenges)) = "mature")
       => /\ panicked'
          /\ resolved_challenges' = resolved_challenges
          /\ blocks' = blocks]_vars

\* a build without overflow checks, where only an index out of range panics,
\* has panicked in advance_time with blocks in the log and the challenge taken
\* from the queue
C13_Witness ==
    /\ panicked
    /\ ~overflow_checks
    /\ last_op = "advance_time"
    /\ blocks # <<>>
    /\ challenges = <<>>
    /\ resolved_challenges = <<>>

\* the block's transactions all return true applied in order to pre, and the
\* block claims exactly the result
HonestBlock(pre, block) ==
    apply_all(pre, block.transactions, 1) = [ok |-> TRUE, balances |-> block.post_state]

\* the first n blocks of the log are honest when the rollup started from g:
\* each is an honest block on the post-state of the block before it
HonestChain(g, n) ==
    \A m \in 1..n :
        HonestBlock(IF m = 1 THEN g ELSE blocks[m - 1].post_state, blocks[m])

\* C14: whatever balances g the rollup started from, when every block in the
\* log is honest, every block is committed.  Blocks are submitted committed
\* and challenges are aimed at stored transactions.  Stated for the builds
\* with overflow checks, where no arithmetic wraps.
C14_HonestStaysCommitted ==
    \A g \in BalanceMaps :
        (overflow_checks /\ HonestChain(g, Len(blocks)))
        => \A i \in 1..Len(blocks) : blocks[i].committed

\* the claimed post-state with the first n transactions undone in reverse
\* order in unbounded integers: the receiver, when it has an entry, loses the
\* amount but not below zero, the sender gains the amount
UndoneInReverse(post_state, transactions, n) ==
    LET RECURSIVE undone(_, _)
        undone(balances, k) ==
            IF k = 0 THEN balances
            ELSE LET tx == transactions[k]
                     floored == IF tx.to \in DOMAIN balances
                                THEN [balances EXCEPT ![tx.to] =
                                        IF @ - tx.amount < 0 THEN 0 ELSE @ - tx.amount]
                                ELSE balances
                 IN  undone(set_entry(floored, tx.from,
                                      get_or_zero(floored, tx.from) + tx.amount),
                            k - 1)
    IN  undone(post_state, n)

\* C15: before any block is submitted the baseline is None and
\* reconstruct_state(0) is the empty state; once the first block is in the log
\* the baseline is its claimed post-state with its transactions undone in
\* reverse order, the receiver debited with a floor at zero and the sender
\* credited with the amount.
C15_BaselineDerivation ==
    IF blocks = <<>>
    THEN /\ initial_state = <<>>
         /\ reconstruct_state(0) = [panic |-> FALSE, balances |-> new_balances]
    ELSE initial_state =
            <<UndoneInReverse(blocks[1].post_state, blocks[1].transactions,
                              Len(blocks[1].transactions))>>

\* C16: the baseline is None exactly while the log is empty, and once it is
\* set no step changes it.
C16_BaselineDerivedOnce ==
    [][/\ (blocks' = <<>>) <=> (initial_state' = <<>>)
       /\ initial_state # <<>> => initial_state' = initial_state]_vars

\* two blocks are stored, the first has been found fraudulent, the second
\* would give another baseline, and the baseline is the one derived from the
\* first
C16_Witness ==
    /\ Len(blocks) = 2
    /\ ~blocks[1].committed
    /\ initial_state = <<derive_initial_state(blocks[1]).balances>>
    /\ derive_initial_state(blocks[2]).balances # initial_state[1]

\* every challenge submitted so far as it was submitted, in the order of the
\* resolved log followed by the pending queue
AllChallenges(resolved, pending) == Requeued(resolved) \o pending

AllSubmittedCommitted ==
    \A i \in 1..Len(blocks) : blocks[i].transactions = <<>> => blocks[i].committed

\* the resolved log holds a challenge on block i (1-based) with Some(false)
Condemned(i) ==
    \E k \in 1..Len(resolved_challenges) :
        /\ resolved_challenges[k].block_number = i - 1
        /\ resolved_challenges[k].valid = "Some(false)"

\* C18: after every step, when every block was submitted committed, a block
\* is uncommitted if and only if the resolved log holds a challenge on it with
\* Some(false); and a step changes the flag of a block only when it resolves a
\* challenge on that block with Some(false).
C18_VerdictFlagAgreement ==
    [][/\ AllSubmittedCommitted' =>
            \A i \in 1..Len(blocks') : (~blocks'[i].committed) <=> Condemned(i)'
       /\ \A i \in 1..Len(blocks) :
            blocks'[i].committed # blocks[i].committed =>
                \E k \in (Len(resolved_challenges) + 1)..Len(resolved_challenges') :
                    /\ resolved_challenges'[k].block_number = i - 1
                    /\ resolved_challenges'[k].valid = "Some(false)"]_vars

\* every block was submitted committed; the second block was condemned and a
\* later challenge against it was resolved Some(true); it is uncommitted and
\* the first block, never condemned, is committed
C18_Witness ==
    /\ AllSubmittedCommitted
    /\ Len(blocks) = 2
    /\ blocks[1].committed /\ ~Condemned(1)
    /\ ~blocks[2].committed
    /\ \E j, k \in 1..Len(resolved_challenges) :
         /\ j < k
         /\ resolved_challenges[j].block_number = 1
         /\ resolved_challenges[j].valid = "Some(false)"
         /\ resolved_challenges[k].block_number = 1
         /\ resolved_challenges[k].valid = "Some(true)"

\* C19: an advance_time that finds at the head of the queue a challenge on a
\* stored transaction whose time is greater than the clock after the advance
\* does not panic and leaves the queue and the resolved log as they are.
C19_NoUnderflow ==
    [][(/\ last_op' = "advance_time"
        /\ challenges # <<>>
        /\ ~Malformed(Head(challenges))
        /\ Head(challenges).time > time')
       => /\ ~panicked'
          /\ challenges' = challenges
          /\ resolved_challenges' = resolved_challenges]_vars

\* C20: whatever balances g the rollup started from, when every block in the
\* log is honest, reconstruct_state(n) is the claimed post-state of block
\* n - 1 for every n from 1 to the length of the log.
C20_HonestChainPreState ==
    \A g \in BalanceMaps :
        HonestChain(g, Len(blocks)) =>
            \A n \in 1..Len(blocks) :
                reconstruct_state(n) = [panic |-> FALSE, balances |-> blocks[n].post_state]

====
